---------------------------- MODULE Spec2Model ----------------------------
(***************************************************************************)
(* Model of the series-resolution code of bestskrellerz:                   *)
(*   src/src/bestskrellerz/wikidata.py           (title / ISBN lookups)    *)
(*   src/src/bestskrellerz/series_enrichment.py  (search-then-verify)      *)
(*   src/src/bestskrellerz/cli.py                (fetch-series batch loop) *)
(*                                                                         *)
(* One run of the model is one call of one entry point (variable mode).   *)
(* Every outbound HTTP request is one step; the reply of the knowledge     *)
(* base is chosen by the environment.  Python's None is the empty tuple,   *)
(* a present value x is <<x>>.  A function that can raise returns a record *)
(* [exc, val]: exc = "none" when it returned val.                          *)
(***************************************************************************)
EXTENDS Integers, Sequences, FiniteSets, TLC

VARIABLES
    mode,       \* the entry point that was called
    pc,         \* position of the run in the code of that entry point
    req,        \* the arguments of the call
    vi,         \* index of the loop over variations / batches / books
    queue,      \* entity ids the search returned, not yet looked up
    net,        \* the outbound lookups issued so far, in order
    got,        \* what the latest lookup function returned to its caller
    ret,        \* the value returned (None until then)
    raised,     \* the exception that left the entry point ("none" if none)
    results,    \* the key -> link mapping a batch function builds
    stats,      \* the counters of enrich_books_with_series
    db,         \* the rows written to the database by the run
    sinceLast,  \* time elapsed since the start of the latest lookup (capped)
    lastGap     \* time between the starts of the two latest lookups

vars == <<mode, pc, req, vi, queue, net, got, ret, raised, results, stats,
          db, sinceLast, lastGap>>

---------------------------------------------------------------------------
(* Bounds of the model *)

MaxLabelLen == 2      \* longest series label the knowledge base returns
MaxOrdLen == 2        \* longest raw ordinal the knowledge base returns
MaxSearchHits == 2    \* most entities one search reply carries
MaxCallTime == 1      \* longest duration of one HTTP call, in seconds
MaxRows == 2          \* most rows one batch reply carries
MaxTitleLen == 5      \* longest title handed to normalize_title, in characters
MaxTitleWords == 3    \* longest title handed to get_title_variations, in words
MaxCaseLen == 5       \* longest title handed to to_title_case, in characters
MaxWeeks == 2         \* most weeks one run of backfill or fetch-history covers
MaxLists == 2         \* most lists one run of backfill covers
MaxRequests == 2      \* largest --max-requests of a run

(* Program constants *)

REQUEST_DELAY == 1    \* series_enrichment.py: seconds slept after each book
DefaultDelay == 1     \* cli.py: default of the --delay option of fetch-series
SearchLimit == 5      \* "limit": 5 of both wbsearchentities calls
DefaultBatchSize == 50 \* cli.py: default of the --batch-size option

None == <<>>
Some(x) == <<x>>

Returned(v) == [exc |-> "none", val |-> v]
Raise(e) == [exc |-> e, val |-> None]

---------------------------------------------------------------------------
(* Strings.  A label, an ordinal and an ISBN are sequences of characters.  *)

LabelChars == {"Q", "P", "1"}
OrdChars == {"1", "-", "."}
Digits == {"0", "1", "2", "3", "4", "5", "6", "7", "8", "9"}
Letters == {"Q", "P"}

StrUpTo(chars, n) == UNION {[1..k -> chars] : k \in 0..n}

Labels == StrUpTo(LabelChars, MaxLabelLen)
Ordinals == StrUpTo(OrdChars, MaxOrdLen)

\* str.isdigit(): non-empty and every character a digit
isdigit(s) == Len(s) >= 1 /\ \A i \in 1..Len(s) : s[i] \in Digits

\* str.startswith(c) for a one-character prefix
startswith(s, c) == Len(s) >= 1 /\ s[1] = c

\* The decimal value of a string of digits (all digits of OrdChars are "1").
RECURSIVE DigitsValue(_)
DigitsValue(s) ==
    IF s = <<>> THEN 0
    ELSE 10 * DigitsValue(SubSeq(s, 1, Len(s) - 1))
         + (CASE s[Len(s)] = "0" -> 0 [] s[Len(s)] = "1" -> 1
              [] s[Len(s)] = "2" -> 2 [] s[Len(s)] = "3" -> 3
              [] s[Len(s)] = "4" -> 4 [] s[Len(s)] = "5" -> 5
              [] s[Len(s)] = "6" -> 6 [] s[Len(s)] = "7" -> 7
              [] s[Len(s)] = "8" -> 8 [] OTHER -> 9)

\* int(s) of Python on a string over OrdChars: an optional sign and at least
\* one digit; anything else raises ValueError.
py_int(s) ==
    LET neg == startswith(s, "-")
        body == IF neg THEN SubSeq(s, 2, Len(s)) ELSE s
    IN  IF isdigit(body)
        THEN Returned(IF neg THEN 0 - DigitsValue(body) ELSE DigitsValue(body))
        ELSE Raise("ValueError")

\* int(float(s)) of Python on a string over OrdChars: an optional sign, then
\* digits with at most one "." and at least one digit; the fraction is cut
\* (rounding toward zero).  Anything else raises ValueError.
py_int_float(s) ==
    LET neg == startswith(s, "-")
        body == IF neg THEN SubSeq(s, 2, Len(s)) ELSE s
        dots == {i \in 1..Len(body) : body[i] = "."}
        whole == IF dots = {} THEN body
                 ELSE SubSeq(body, 1, (CHOOSE i \in dots : TRUE) - 1)
        frac == IF dots = {} THEN <<>>
                ELSE SubSeq(body, (CHOOSE i \in dots : TRUE) + 1, Len(body))
        ok == /\ Cardinality(dots) <= 1
              /\ \A i \in 1..Len(body) : body[i] \in Digits \cup {"."}
              /\ Len(whole) + Len(frac) >= 1
    IN  IF ok
        THEN Returned(IF neg THEN 0 - DigitsValue(whole) ELSE DigitsValue(whole))
        ELSE Raise("ValueError")


---------------------------------------------------------------------------
(* Titles.  A title is a sequence of words; a word is its letters (base,   *)
(* in lower case) and its casing.  The words of the model are chosen so    *)
(* that a term of TITLE_VARIATIONS occurs in a title as a substring        *)
(* exactly when its words occur in it as consecutive words.                *)

W(base, cs) == [base |-> base, cs |-> cs]

lower(title) == [i \in 1..Len(title) |-> W(title[i].base, "lower")]
capitalize(word) == W(word.base, "cap")

small_words == {"a", "an", "the", "and", "but", "or", "for", "nor", "on", "at",
                "to", "by", "of", "in", "with", "from", "into", "as"}

to_title_case(title) ==
    LET words == lower(title)
    IN  [i \in 1..Len(words) |->
            IF i = 1 \/ words[i].base \notin small_words
            THEN capitalize(words[i]) ELSE words[i]]

TITLE_VARIATIONS == <<
    <<(<<W("sorcerer's", "cap"), W("stone", "cap")>>),
      (<<W("philosopher's", "cap"), W("stone", "cap")>>)>>,
    <<(<<W("sorcerers", "cap"), W("stone", "cap")>>),
      (<<W("philosopher's", "cap"), W("stone", "cap")>>)>>,
    <<(<<W("color", "cap")>>), (<<W("colour", "cap")>>)>>,
    <<(<<W("favorite", "cap")>>), (<<W("favourite", "cap")>>)>>,
    <<(<<W("honor", "cap")>>), (<<W("honour", "cap")>>)>>,
    <<(<<W("traveling", "cap")>>), (<<W("travelling", "cap")>>)>>,
    <<(<<W("canceled", "cap")>>), (<<W("cancelled", "cap")>>)>> >>

\* term occurs in title at position i, ignoring case
OccursAt(title, term, i) ==
    /\ i + Len(term) - 1 <= Len(title)
    /\ \A k \in 1..Len(term) : title[i + k - 1].base = term[k].base

\* term.lower() in title.lower()
Contains(title, term) == \E i \in 1..Len(title) : OccursAt(title, term, i)

\* re.sub(re.escape(term), repl, title, flags=re.IGNORECASE): every
\* occurrence, left to right, not overlapping
RECURSIVE re_sub(_, _, _)
re_sub(term, repl, title) ==
    IF title = <<>> THEN <<>>
    ELSE IF OccursAt(title, term, 1)
         THEN repl \o re_sub(term, repl, SubSeq(title, Len(term) + 1, Len(title)))
         ELSE <<title[1]>> \o re_sub(term, repl, Tail(title))

\* Faulty variant: each substitution is made in the title as the earlier
\* entries left it.
RECURSIVE VariationsChained(_, _)
VariationsChained(title, k) ==
    IF k > Len(TITLE_VARIATIONS) THEN <<>>
    ELSE LET us_term == TITLE_VARIATIONS[k][1]
             uk_term == TITLE_VARIATIONS[k][2]
             variant == IF Contains(title, us_term) THEN re_sub(us_term, uk_term, title)
                        ELSE IF Contains(title, uk_term)
                        THEN re_sub(uk_term, us_term, title)
                        ELSE title
         IN  (IF variant # title THEN <<variant>> ELSE <<>>)
             \o VariationsChained(variant, k + 1)

\* 67-73: the loop over the table from entry k on
RECURSIVE VariationsFrom(_, _)
VariationsFrom(title, k) ==
    IF k > Len(TITLE_VARIATIONS) THEN <<>>
    ELSE LET us_term == TITLE_VARIATIONS[k][1]
             uk_term == TITLE_VARIATIONS[k][2]
         IN  (IF Contains(title, us_term)
              THEN <<re_sub(us_term, uk_term, title)>> ELSE <<>>)
             \o (IF Contains(title, uk_term)
                 THEN <<re_sub(uk_term, us_term, title)>> ELSE <<>>)
             \o VariationsFrom(title, k + 1)

\* Faulty variant: the original title comes last.
get_title_variations_original_last(title) == VariationsFrom(title, 1) \o <<title>>

\* 60-75
get_title_variations(title) == <<title>> \o VariationsFrom(title, 1)

---------------------------------------------------------------------------
(* The knowledge base's replies *)

ItemIds == {"Q7"}
SeriesIds == {"Q9"}

\* One row ("binding") of a SPARQL reply.  A field that is missing and a
\* field whose value is "" are both the empty string: the code tests the
\* fields for truth only.  value is the ?title / ?isbn column of a batch row.
Row(value, item, series, label, position) ==
    [value |-> value, item |-> item, series |-> series, label |-> label,
     position |-> position]

SingleRows ==
    {Row(None, i, s, l, p) :
        i \in ItemIds, s \in SeriesIds, l \in Labels, p \in Ordinals}

\* The rows of the replies inside the loop of enrich_books_with_series: an
\* empty label, a placeholder, a name, a name beginning with Q; no ordinal,
\* an integer, no number.
LoopLabels == {<<>>, <<"Q", "1">>, <<"P">>, <<"Q", "P">>}
LoopOrdinals == {<<>>, <<"1">>, <<".">>}
LoopRows ==
    {Row(None, i, s, l, p) :
        i \in ItemIds, s \in SeriesIds, l \in LoopLabels, p \in LoopOrdinals}

\* How a request can fail before any row is read: no reply in time, a
\* non-2xx status, a body that is not JSON, JSON of another shape.
FailKinds == {"timeout", "http_error", "bad_json", "bad_shape"}

\* The exception the failing statement raises: requests.get (Timeout),
\* raise_for_status (HTTPError), response.json (JSONDecodeError),
\* data.get on a value that is no dict (AttributeError).
ExcOf(kind) ==
    CASE kind = "timeout" -> "Timeout"
      [] kind = "http_error" -> "HTTPError"
      [] kind = "bad_json" -> "JSONDecodeError"
      [] OTHER -> "AttributeError"

\* isinstance(exc, cls): requests' JSONDecodeError is a RequestException and
\* a ValueError (requests 2.27 and later).
IsInstance(exc, cls) ==
    CASE cls = "Exception" -> TRUE
      [] cls = "RequestException" -> exc \in {"Timeout", "HTTPError", "JSONDecodeError"}
      [] cls = "ValueError" -> exc \in {"ValueError", "JSONDecodeError"}
      [] OTHER -> exc = cls

Catches(classes, exc) == \E cls \in classes : IsInstance(exc, cls)

Failed(kind) == [kind |-> kind, rows |-> <<>>]
Ok(rows) == [kind |-> "ok", rows |-> rows]

\* Replies to a LIMIT 1 query
SingleReplies ==
    {Failed(k) : k \in FailKinds} \cup {Ok(<<>>)} \cup {Ok(<<r>>) : r \in SingleRows}
LoopSingleReplies ==
    {Failed(k) : k \in FailKinds} \cup {Ok(<<>>)} \cup {Ok(<<r>>) : r \in LoopRows}

\* requests.get; raise_for_status; response.json; data.get("results").get("bindings")
Bindings(reply) ==
    IF reply.kind = "ok" THEN Returned(reply.rows) ELSE Raise(ExcOf(reply.kind))

---------------------------------------------------------------------------
(* wikidata.py: the filter and the single lookups *)

SeriesInfo(wikidata_id, series_name, series_position) ==
    [wikidata_id |-> wikidata_id, series_name |-> series_name,
     series_position |-> series_position]

_parse_series_result(result) ==
    LET wikidata_id == result.item
        series_name == result.label
        position_str == result.position
        position == IF position_str # <<>> THEN py_int(position_str)
                    ELSE Returned(None)
    IN  IF position.exc # "none" THEN Raise(position.exc)
        ELSE IF series_name # <<>> /\ ~startswith(series_name, "Q")
             THEN Returned(Some(SeriesInfo(wikidata_id, series_name,
                     IF position_str # <<>> THEN Some(position.val) ELSE None)))
             ELSE Returned(None)

\* The try body shared by the LIMIT 1 lookups: parse bindings[0] if any.
FirstBinding(reply) ==
    LET b == Bindings(reply)
    IN  IF b.exc # "none" THEN b
        ELSE IF b.val # <<>> THEN _parse_series_result(b.val[1])
        ELSE Returned(None)

\* try: ... except <classes>: return None
ExceptReturnNone(r, classes) ==
    IF r.exc # "none" /\ Catches(classes, r.exc) THEN Returned(None) ELSE r

_query_by_exact_title(reply) == ExceptReturnNone(FirstBinding(reply), {"Exception"})

_query_by_alt_label(reply) == ExceptReturnNone(FirstBinding(reply), {"Exception"})

_get_series_for_entity(reply) == ExceptReturnNone(FirstBinding(reply), {"Exception"})


---------------------------------------------------------------------------
(* ISBNs *)

\* isbn.replace("-", "")
RECURSIVE RemoveHyphens(_)
RemoveHyphens(s) ==
    IF s = <<>> THEN <<>>
    ELSE (IF s[1] = "-" THEN <<>> ELSE <<s[1]>>) \o RemoveHyphens(Tail(s))

\* str.strip()
RECURSIVE strip(_)
strip(s) ==
    IF s = <<>> THEN s
    ELSE IF s[1] = " " THEN strip(Tail(s))
    ELSE IF s[Len(s)] = " " THEN strip(SubSeq(s, 1, Len(s) - 1))
    ELSE s

\* Faulty variant: the hyphens removed, the surrounding blanks kept.
clean_isbn_hyphens_only(isbn) == RemoveHyphens(isbn)

\* 91 and 415: isbn.replace("-", "").strip()
clean_isbn(isbn) == strip(RemoveHyphens(isbn))

\* Faulty variant: the two ISBN properties exchanged.
isbn_prop_swapped(clean) ==
    IF Len(clean) = 13 THEN "P957"
    ELSE IF Len(clean) = 10 THEN "P212"
    ELSE "none"

\* wikidata.py 95-100 and 417-420: the lookup class of a cleaned ISBN
isbn_prop(clean) ==
    IF Len(clean) = 13 THEN "P212"
    ELSE IF Len(clean) = 10 THEN "P957"
    ELSE "none"

Isbn13A == <<"9","7","8","-","0","-","5","9","0","-","3","5","3","4","2","-","7">>
Isbn13B == <<"9","7","8","1","3","3","5","5","3","4","6","3","7">>
Isbn13Spaced == <<" ">> \o Isbn13B \o <<" ">>
Isbn10A == <<"0","-","5","9","0","-","3","5","3","4","2","-","0">>
IsbnShort == <<"1","2","3","4","5">>
NoIsbn == <<>>

---------------------------------------------------------------------------
(* wikidata.py: normalize_title.  A title is a sequence of characters:     *)
(* a blank, a colon, the parentheses and the letters a and n, which spell  *)
(* the articles "A" and "An" and the other words.  The article pattern     *)
(* ignores case, so a letter stands for its upper and its lower case.      *)

TitleStrings == StrUpTo({" ", ":", "(", ")", "a", "n"}, MaxTitleLen)

\* 39: title.split(":")[0]
BeforeColon(s) ==
    IF \E i \in 1..Len(s) : s[i] = ":"
    THEN SubSeq(s, 1, (CHOOSE i \in 1..Len(s) :
                        s[i] = ":" /\ \A k \in 1..(i - 1) : s[k] # ":") - 1)
    ELSE s

AllBlank(s, from, to) == \A k \in from..to : s[k] = " "

\* 41: re.sub(r'\s*\(.*?\)\s*$', '', title).  The pattern matches from the
\* blanks before the first "(" to the end of the string when a ")" after
\* that "(" has nothing but blanks behind it: .*? runs over every character
\* up to that ")".
StripParenthetical(s) ==
    LET opens == {p \in 1..Len(s) : s[p] = "("}
        closes == {q \in 1..Len(s) : s[q] = ")" /\ AllBlank(s, q + 1, Len(s))}
    IN  IF \E p \in opens, q \in closes : p < q
        THEN LET first == CHOOSE p \in opens : \A o \in opens : p <= o
                 start == CHOOSE i \in 1..first :
                            /\ AllBlank(s, i, first - 1)
                            /\ \A j \in 1..(i - 1) : ~AllBlank(s, j, first - 1)
             IN  SubSeq(s, 1, start - 1)
        ELSE s

\* 43: the alternatives of (The|A|An), in the order the pattern tries them
Articles == <<<<"t", "h", "e">>, <<"a">>, <<"a", "n">>>>

\* 43: re.sub(r'^(The|A|An)\s+', '', title, flags=re.IGNORECASE): the first
\* alternative that is followed by a blank goes, with the blanks behind it
StripArticle(s) ==
    LET fits == {k \in 1..Len(Articles) :
                    /\ Len(s) > Len(Articles[k])
                    /\ SubSeq(s, 1, Len(Articles[k])) = Articles[k]
                    /\ s[Len(Articles[k]) + 1] = " "}
    IN  IF fits = {} THEN s
        ELSE LET k == CHOOSE x \in fits : \A y \in fits : x <= y
                 rest == SubSeq(s, Len(Articles[k]) + 1, Len(s))
                 blanks == CHOOSE n \in 1..Len(rest) :
                              /\ AllBlank(rest, 1, n)
                              /\ (n < Len(rest) => rest[n + 1] # " ")
             IN  SubSeq(rest, blanks + 1, Len(rest))

\* 37-44
normalize_title(title) ==
    strip(StripArticle(StripParenthetical(strip(BeforeColon(title)))))

---------------------------------------------------------------------------
(* The requests of the model *)

FourthWing == <<W("fourth", "cap"), W("wing", "cap")>>
fourth_wing == <<W("fourth", "lower"), W("wing", "lower")>>
ColorPurple == <<W("the", "cap"), W("color", "cap"), W("purple", "cap")>>
PhilosophersStone == <<W("philosopher's", "lower"), W("stone", "lower")>>
NoTitle == <<>>

TitleRequests ==
    { [title |-> FourthWing, author |-> None, isbn |-> NoIsbn],
      [title |-> ColorPurple, author |-> Some("walker"), isbn |-> Isbn13A],
      [title |-> PhilosophersStone, author |-> None, isbn |-> Isbn10A],
      [title |-> NoTitle, author |-> Some("yarros"), isbn |-> IsbnShort] }

IsbnRequests ==
    { [title |-> NoTitle, author |-> None, isbn |-> i] :
        i \in {NoIsbn, IsbnShort, Isbn13A, Isbn13B, Isbn13Spaced, Isbn10A} }

---------------------------------------------------------------------------
(* Time and the log of outbound lookups *)

\* The delay the run is configured with
Delay == IF mode = "fetch_series" THEN req.delay ELSE REQUEST_DELAY

Cap(t) == IF t > Delay THEN Delay ELSE t

\* How a lookup ended for its caller: "hit" (a link, or a non-empty list or
\* mapping), "miss" (None or empty), "error" (caught and printed),
\* "raised" (the exception left the function).
Lookup(kind, arg, outcome) == [kind |-> kind, arg |-> arg, outcome |-> outcome]

OutcomeOf(r) ==
    IF r.exc # "none" THEN "raised"
    ELSE IF r.val # None THEN "hit" ELSE "miss"

\* The same where the caller can tell a swallowed failure from no match
FailOutcome(reply, r) ==
    IF reply.kind # "ok" /\ r.exc = "none" THEN "error" ELSE OutcomeOf(r)

\* One HTTP request whose function returned value; d seconds pass from its
\* start to the next statement of the caller
Issue(entry, value, d) ==
    /\ net' = Append(net, entry)
    /\ got' = value
    /\ lastGap' = IF net = <<>> THEN None ELSE Some(sinceLast)
    /\ sinceLast' = Cap(d)

NoLookup == UNCHANGED <<net, got, lastGap, sinceLast>>

Return(r) ==
    /\ pc' = "done"
    /\ ret' = r.val
    /\ raised' = r.exc

---------------------------------------------------------------------------
(* wikidata.py: query_wikidata_by_title *)

\* 171-174: the variations of each title of the model
Variations ==
    [title \in {r.title : r \in TitleRequests} |->
        get_title_variations(to_title_case(title))]

variations == Variations[req.title]

\* Faulty variant: a match of the exact-label lookup does not end the cascade.
CascadeNextNoShortCircuit(pcNow, result, i, n) ==
    IF result # None /\ pcNow # "exact" THEN [pc |-> "return", vi |-> i]
    ELSE IF pcNow = "exact" THEN [pc |-> "alt", vi |-> i]
    ELSE IF i < n THEN [pc |-> "exact", vi |-> i + 1]
    ELSE [pc |-> "search", vi |-> i]

\* Faulty variant: the exact-label lookup of every variant first, then the
\* alternate-label lookups.
CascadeNextExactFirst(pcNow, result, i, n) ==
    IF result # None THEN [pc |-> "return", vi |-> i]
    ELSE IF i < n THEN [pc |-> pcNow, vi |-> i + 1]
    ELSE IF pcNow = "exact" THEN [pc |-> "alt", vi |-> 1]
    ELSE [pc |-> "search", vi |-> i]

\* 176-191: where the cascade goes after the lookup made at pcNow on
\* variant i of n returned result
CascadeNext(pcNow, result, i, n) ==
    IF result # None THEN [pc |-> "return", vi |-> i]
    ELSE IF pcNow = "exact" THEN [pc |-> "alt", vi |-> i]
    ELSE IF i < n THEN [pc |-> "exact", vi |-> i + 1]
    ELSE [pc |-> "search", vi |-> i]

VariantStep(kind, r, d) ==
    LET next == CascadeNext(pc, r.val, vi, Len(variations))
    IN  /\ Issue(Lookup(kind, variations[vi], OutcomeOf(r)), r.val, d)
        /\ vi' = next.vi
        /\ IF next.pc = "return"
           THEN Return(r)
           ELSE pc' = next.pc /\ UNCHANGED <<ret, raised>>

ExactTitle ==
    /\ mode = "query_wikidata_by_title" /\ pc = "exact"
    /\ \E reply \in SingleReplies, d \in 0..MaxCallTime :
        VariantStep("exact", _query_by_exact_title(reply), d)
    /\ UNCHANGED <<mode, req, queue, results, stats, db>>

AltLabel ==
    /\ mode = "query_wikidata_by_title" /\ pc = "alt"
    /\ \E reply \in SingleReplies, d \in 0..MaxCallTime :
        VariantStep("alt", _query_by_alt_label(reply), d)
    /\ UNCHANGED <<mode, req, queue, results, stats, db>>

\* A search reply: the "search" list, each item with or without an "id"
Qids == {"Q1", "Q2"}
SearchItems == {None} \cup {Some(q) : q \in Qids}

\* the ids of the items that have one, in order
RECURSIVE IdsOf(_)
IdsOf(items) ==
    IF items = <<>> THEN <<>>
    ELSE items[1] \o IdsOf(Tail(items))

\* no entity is listed twice in one reply
SearchReplies ==
    {Failed(k) : k \in FailKinds}
    \cup {Ok(items) : items \in
            {l \in StrUpTo(SearchItems, MaxSearchHits) :
                \A i, j \in 1..Len(IdsOf(l)) :
                    IdsOf(l)[i] = IdsOf(l)[j] => i = j}}

\* 282-285: the text searched for
search_query(title, author) == [title |-> title, author |-> author]

\* 287-305, 317-318: the search request of _search_wikidata; a failure ends
\* the strategy with None
SearchStep ==
    /\ mode = "query_wikidata_by_title" /\ pc = "search"
    /\ \E reply \in SearchReplies, d \in 0..MaxCallTime :
        LET b == ExceptReturnNone(Bindings(reply), {"Exception"})
            ids == IdsOf(b.val)
        IN  /\ Issue(Lookup("search",
                        [text |-> search_query(to_title_case(req.title), req.author),
                         limit |-> SearchLimit],
                        IF ids # <<>> THEN "hit" ELSE "miss"), ids, d)
            /\ queue' = ids
            /\ IF ids = <<>>
               THEN Return(Returned(None))
               ELSE pc' = "entity" /\ UNCHANGED <<ret, raised>>
    /\ UNCHANGED <<mode, req, vi, results, stats, db>>

\* 308-315: the series lookup of the next entity the search returned
EntityStep ==
    /\ mode = "query_wikidata_by_title" /\ pc = "entity"
    /\ \E reply \in SingleReplies, d \in 0..MaxCallTime :
        LET r == _get_series_for_entity(reply)
        IN  /\ Issue(Lookup("entity", Head(queue), OutcomeOf(r)), r.val, d)
            /\ queue' = Tail(queue)
            /\ IF r.val # None \/ Tail(queue) = <<>>
               THEN Return(r)
               ELSE UNCHANGED <<pc, ret, raised>>
    /\ UNCHANGED <<mode, req, vi, results, stats, db>>

---------------------------------------------------------------------------
(* wikidata.py: query_wikidata_by_isbn *)

query_wikidata_by_isbn(reply) ==
    ExceptReturnNone(FirstBinding(reply), {"RequestException", "KeyError", "ValueError"})

QueryByIsbn ==
    /\ mode = "query_wikidata_by_isbn" /\ pc = "start"
    /\ LET clean == clean_isbn(req.isbn)
       IN  IF req.isbn = <<>> \/ isbn_prop(clean) = "none"
           THEN Return(Returned(None)) /\ NoLookup
           ELSE \E reply \in SingleReplies, d \in 0..MaxCallTime :
                  LET r == query_wikidata_by_isbn(reply)
                  IN  /\ Issue(Lookup("isbn",
                                  [prop |-> isbn_prop(clean), isbn |-> clean],
                                  FailOutcome(reply, r)), r.val, d)
                      /\ Return(r)
    /\ UNCHANGED <<mode, req, vi, queue, results, stats, db>>

---------------------------------------------------------------------------
(* series_enrichment.py: the filter of get_series_info_for_entity *)

\* 130-151: the tuple (series_label, series_id, ordinal_int, item_id)
get_series_info_for_entity_body(reply) ==
    LET b == Bindings(reply)
    IN  IF b.exc # "none" THEN b
        ELSE IF b.val = <<>> THEN Returned(None)
        ELSE LET result == b.val[1]
                 series_label == result.label
                 ordinal == result.position
                 parsed == py_int_float(ordinal)
                 ordinal_int == IF ordinal # <<>> /\ parsed.exc = "none"
                                THEN Some(parsed.val) ELSE None
             IN  IF startswith(series_label, "Q") /\ isdigit(Tail(series_label))
                 THEN Returned(None)
                 ELSE Returned(Some([series_name |-> series_label,
                                     series_id |-> result.series,
                                     ordinal |-> ordinal_int,
                                     book_id |-> result.item]))

get_series_info_for_entity(reply) ==
    ExceptReturnNone(get_series_info_for_entity_body(reply), {"RequestException"})

---------------------------------------------------------------------------
(* series_enrichment.py: enrich_books_with_series *)

Book(title, author) == [title |-> title, author |-> author]
Honor == <<W("honor", "cap")>>
BookA == Book(FourthWing, "yarros")
BookB == Book(Honor, "walker")
BookC == Book(ColorPurple, "walker")

\* get_unique_books returns distinct books ordered by title
EnrichRequests ==
    { [books |-> <<BookA, BookB, BookC>>, stored |-> {BookB}, limit |-> None,
       skip_existing |-> TRUE],
      [books |-> <<BookA, BookB, BookC>>, stored |-> {BookA, BookB}, limit |-> Some(2),
       skip_existing |-> FALSE],
      [books |-> <<BookA, BookB>>, stored |-> {BookA, BookB}, limit |-> None,
       skip_existing |-> TRUE],
      [books |-> <<>>, stored |-> {}, limit |-> None, skip_existing |-> TRUE] }

\* 269-271: the books of the run
books ==
    IF req.limit # None /\ req.limit[1] # 0 /\ req.limit[1] < Len(req.books)
    THEN SubSeq(req.books, 1, req.limit[1])
    ELSE req.books

\* Faulty variant: the books already in book_series are not read.
existing_not_read == {}

\* 274-280: the books already in book_series
existing == IF req.skip_existing THEN req.stored ELSE {}

\* 282-288
InitialStats(total) ==
    [total |-> total, processed |-> 0, found_series |-> 0, skipped |-> 0, errors |-> 0]

\* 43-77: a RequestException gives no entities, any other exception leaves
search_wikidata_entities(reply) ==
    LET b == Bindings(reply)
    IN  IF b.exc # "none"
        THEN IF Catches({"RequestException"}, b.exc) THEN Returned(<<>>) ELSE b
        ELSE Returned(IdsOf(b.val))

\* Faulty variant: the loop's handler catches the errors of requests only.
EnrichCatchesRequestErrorsOnly(exc) == Catches({"RequestException"}, exc)

\* 310-312: the loop's handler
EnrichCatches(exc) == Catches({"Exception"}, exc)

\* 297-315: the end of one book's iteration.  r is what
\* query_wikidata_for_series returned or raised, saved tells whether
\* save_series_info succeeded.
BookEnds(r, saved) ==
    /\ vi' = vi + 1
    /\ queue' = <<>>
    /\ IF r.exc # "none" /\ ~EnrichCatches(r.exc)
       THEN Return(r) /\ UNCHANGED <<stats, db>>
       ELSE /\ pc' = "book"
            /\ UNCHANGED <<ret, raised>>
            /\ IF r.exc # "none"
               THEN /\ stats' = [stats EXCEPT !.errors = @ + 1]
                    /\ db' = db
               ELSE IF r.val = None
               THEN /\ stats' = [stats EXCEPT !.processed = @ + 1]
                    /\ db' = db
               ELSE IF saved
               THEN /\ stats' = [stats EXCEPT !.processed = @ + 1,
                                              !.found_series = @ + 1]
                    /\ db' = Append(db, books[vi])
               ELSE /\ stats' = [stats EXCEPT !.errors = @ + 1]
                    /\ db' = db

\* 291-293
EnrichSkip ==
    /\ mode = "enrich_books_with_series" /\ pc = "book"
    /\ vi <= Len(books) /\ books[vi] \in existing
    /\ stats' = [stats EXCEPT !.skipped = @ + 1]
    /\ vi' = vi + 1
    /\ NoLookup
    /\ UNCHANGED <<mode, pc, req, queue, ret, raised, results, db>>

\* 298, 173-175: the search of query_wikidata_for_series
EnrichSearch ==
    /\ mode = "enrich_books_with_series" /\ pc = "book"
    /\ vi <= Len(books) /\ books[vi] \notin existing
    /\ \E reply \in SearchReplies, d \in 0..MaxCallTime :
        LET r == search_wikidata_entities(reply)
            ends == r.exc # "none" \/ r.val = <<>>
        IN  /\ Issue(Lookup("search", books[vi], FailOutcome(reply, r)), r.val,
                     IF ends THEN d + REQUEST_DELAY ELSE d)
            /\ IF ends
               THEN BookEnds(IF r.exc # "none" THEN r ELSE Returned(None), TRUE)
               ELSE /\ pc' = "entity"
                    /\ queue' = r.val
                    /\ UNCHANGED <<vi, ret, raised, stats, db>>
    /\ UNCHANGED <<mode, req, results>>

\* 178-191: the series lookup of the next candidate entity
EnrichEntity ==
    /\ mode = "enrich_books_with_series" /\ pc = "entity"
    /\ \E reply \in LoopSingleReplies, d \in 0..MaxCallTime, saved \in BOOLEAN :
        LET r == get_series_info_for_entity(reply)
            ends == r.exc # "none" \/ r.val # None \/ Tail(queue) = <<>>
        IN  /\ Issue(Lookup("entity", [book |-> books[vi], id |-> Head(queue)],
                            FailOutcome(reply, r)), r.val,
                     IF ends THEN d + REQUEST_DELAY ELSE d)
            /\ IF ends
               THEN BookEnds(r, saved)
               ELSE /\ queue' = Tail(queue)
                    /\ UNCHANGED <<pc, vi, ret, raised, stats, db>>
    /\ UNCHANGED <<mode, req, results>>

\* 317-326
EnrichFinish ==
    /\ mode = "enrich_books_with_series" /\ pc = "book"
    /\ vi > Len(books)
    /\ Return(Returned(Some(stats)))
    /\ NoLookup
    /\ UNCHANGED <<mode, req, vi, queue, results, stats, db>>

---------------------------------------------------------------------------
(* The filters applied to one candidate row *)

ParseSeriesResult ==
    /\ mode = "_parse_series_result" /\ pc = "start"
    /\ got' = _parse_series_result(req).val
    /\ Return(_parse_series_result(req))
    /\ UNCHANGED <<mode, req, vi, queue, net, results, stats, db, sinceLast, lastGap>>

GetSeriesInfoForEntity ==
    /\ mode = "get_series_info_for_entity" /\ pc = "start"
    /\ \E d \in 0..MaxCallTime :
         LET r == get_series_info_for_entity(Ok(<<req>>))
         IN  /\ Issue(Lookup("entity", "Q1", OutcomeOf(r)), r.val, d)
             /\ Return(r)
    /\ UNCHANGED <<mode, req, vi, queue, results, stats, db>>

---------------------------------------------------------------------------
(* Python dicts: the sequence of the items in insertion order *)

Item(key, val) == [key |-> key, val |-> val]

Keys(d) == {d[i].key : i \in 1..Len(d)}

\* d.get(k, default)
dict_get(d, k, default) ==
    IF k \in Keys(d) THEN d[CHOOSE i \in 1..Len(d) : d[i].key = k].val
    ELSE default

\* d[k] = v
dict_set(d, k, v) ==
    IF k \in Keys(d)
    THEN [i \in 1..Len(d) |-> IF d[i].key = k THEN Item(k, v) ELSE d[i]]
    ELSE Append(d, Item(k, v))

---------------------------------------------------------------------------
(* wikidata.py: query_wikidata_batch_by_title *)

\* 547-554: the pairs (variant, title) in the order the loops meet them
RECURSIVE VariantPairs(_)
VariantPairs(titles) ==
    IF titles = <<>> THEN <<>>
    ELSE LET title == titles[1]
             vs == get_title_variations(to_title_case(title))
         IN  [i \in 1..Len(vs) |-> [variant |-> vs[i], title |-> title]]
             \o VariantPairs(Tail(titles))

\* 553: the values of the VALUES clause
values_parts(titles) ==
    LET pairs == VariantPairs(titles)
    IN  [i \in 1..Len(pairs) |-> pairs[i].variant]

\* 554: title_map[variant.lower()] = title, for the first n pairs
RECURSIVE TitleMapOf(_, _)
TitleMapOf(pairs, n) ==
    IF n = 0 THEN <<>>
    ELSE LET earlier == TitleMapOf(pairs, n - 1)
         IN  dict_set(earlier, lower(pairs[n].variant), pairs[n].title)

title_map(titles) ==
    LET pairs == VariantPairs(titles)
    IN  TitleMapOf(pairs, Len(pairs))

\* 596-608: the loop over the rows; an exception of _parse_series_result
\* leaves the loop
RECURSIVE BatchTitleLoop(_, _, _)
BatchTitleLoop(bindings, tmap, res) ==
    IF bindings = <<>> THEN Returned(res)
    ELSE LET result == bindings[1]
             title == result.value
             series_name == result.label
             original_title == dict_get(tmap, lower(title), title)
             info == _parse_series_result(result)
         IN  IF title # <<>> /\ series_name # <<>> /\ ~startswith(series_name, "Q")
                /\ original_title \notin Keys(res)
             THEN IF info.exc # "none" THEN info
                  ELSE IF info.val # None
                  THEN BatchTitleLoop(Tail(bindings), tmap,
                                      dict_set(res, original_title, info.val[1]))
                  ELSE BatchTitleLoop(Tail(bindings), tmap, res)
             ELSE BatchTitleLoop(Tail(bindings), tmap, res)

\* 584-608: the try body, given the reverse map
BatchTitleBody(tmap, reply) ==
    LET b == Bindings(reply)
    IN  IF b.exc # "none" THEN b
        ELSE BatchTitleLoop(b.val, tmap, <<>>)

\* 610-615: both handlers return {}
BatchTitleCatches(exc) == Catches({"RequestException", "KeyError", "ValueError"}, exc)

BatchTitleReturn(body) ==
    IF body.exc # "none" /\ BatchTitleCatches(body.exc)
    THEN Returned(<<>>) ELSE body

\* 543-615 for a non-empty list of titles
query_wikidata_batch_by_title(titles, reply) ==
    BatchTitleReturn(BatchTitleBody(title_map(titles), reply))

\* How a batch lookup ended: "error" when the request failed and the
\* function went on, "rowerror" when an exception left the loop over the rows
BatchOutcome(reply, body, r, contributed) ==
    IF r.exc # "none" THEN "raised"
    ELSE IF reply.kind # "ok" THEN "error"
    ELSE IF body.exc # "none" THEN "rowerror"
    ELSE IF contributed THEN "hit" ELSE "miss"

\* The rows of a batch reply: an accepted name or no label; no ordinal, an
\* integer ordinal or one that is no number
BatchLabels == {<<>>, <<"P">>}
BatchOrdinals == {<<>>, <<"1">>, <<".">>}

BatchRows(values) ==
    {Row(v, i, s, l, p) :
        v \in values, i \in ItemIds, s \in SeriesIds,
        l \in BatchLabels, p \in BatchOrdinals}

\* The title loop reads the ordinal of a row only after its label passed the
\* filter (lines 600-604): its rows without a label carry no ordinal
BatchTitleRows(values) ==
    {row \in BatchRows(values) : row.label = <<>> => row.position = <<>>}

BatchReplies(values) ==
    {Failed(k) : k \in FailKinds}
    \cup {Ok(rows) : rows \in StrUpTo(BatchTitleRows(values), MaxRows)}

\* The ?title values of the rows: missing, a variant as it was sent, a
\* variant in another casing
ColourPurple == <<W("the", "cap"), W("colour", "cap"), W("purple", "cap")>>
TitleValues == {<<>>, fourth_wing, ColourPurple}

BatchTitleRequests ==
    { [titles |-> <<FourthWing, ColorPurple>>],
      [titles |-> <<FourthWing, fourth_wing>>],
      [titles |-> <<ColorPurple>>],
      [titles |-> <<NoTitle>>],
      [titles |-> <<>>] }

---------------------------------------------------------------------------
(* wikidata.py: query_wikidata_batch_by_isbn *)

IsbnEntry(isbn, key) == [isbn |-> isbn, key |-> key]

\* the keys are the titles of the books
BatchIsbnRequests ==
    { [isbn_list |-> <<IsbnEntry(Isbn13A, ColorPurple), IsbnEntry(Isbn10A, FourthWing),
                       IsbnEntry(IsbnShort, Honor)>>],
      [isbn_list |-> <<IsbnEntry(Isbn13A, ColorPurple), IsbnEntry(Isbn13B, FourthWing)>>],
      [isbn_list |-> <<IsbnEntry(Isbn13A, ColorPurple),
                       IsbnEntry(RemoveHyphens(Isbn13A), FourthWing)>>],
      [isbn_list |-> <<IsbnEntry(Isbn13Spaced, ColorPurple), IsbnEntry(Isbn10A, FourthWing),
                       IsbnEntry(IsbnShort, Honor)>>],
      [isbn_list |-> <<IsbnEntry(Isbn10A, FourthWing)>>],
      [isbn_list |-> <<IsbnEntry(IsbnShort, Honor)>>],
      [isbn_list |-> <<>>] }

\* The ?isbn values of the rows of a reply to the query of one lookup
\* class: missing, or an ISBN of that class that was sent
IsbnValues(prop) ==
    {<<>>, clean_isbn(IF prop = "P212" THEN Isbn13A ELSE Isbn10A)}

\* A call makes up to two requests: replies of no, one or two rows
IsbnReplies(prop) ==
    {Failed(k) : k \in FailKinds} \cup {Ok(<<>>)}
    \cup {Ok(<<r>>) : r \in BatchRows(IsbnValues(prop))}
    \cup {Ok(<<r1, r2>>) : r1, r2 \in BatchRows(IsbnValues(prop))}

\* 414-416: isbn_to_key[clean_isbn] = key, for the first n entries
RECURSIVE isbn_to_key(_, _)
isbn_to_key(isbn_list, n) ==
    IF n = 0 THEN <<>>
    ELSE LET earlier == isbn_to_key(isbn_list, n - 1)
         IN  dict_set(earlier, clean_isbn(isbn_list[n].isbn), isbn_list[n].key)

\* 417-420: the cleaned ISBNs of one lookup class, in the order of the list
RECURSIVE isbn_values(_, _)
isbn_values(isbn_list, prop) ==
    IF isbn_list = <<>> THEN <<>>
    ELSE LET clean == clean_isbn(isbn_list[1].isbn)
         IN  (IF isbn_prop(clean) = prop THEN <<clean>> ELSE <<>>)
             \o isbn_values(Tail(isbn_list), prop)

\* What lines 410-420 compute for each list of the model
IsbnPlan ==
    [isbn_list \in {r.isbn_list : r \in BatchIsbnRequests} |->
        [isbn13_values |-> isbn_values(isbn_list, "P212"),
         isbn10_values |-> isbn_values(isbn_list, "P957"),
         isbn_to_key |-> isbn_to_key(isbn_list, Len(isbn_list))]]

\* the value of results when exc left the try body
Partial(exc, res) == [exc |-> exc, val |-> res]

\* 465-471 and 516-522: the loop over the rows, which assigns into results
RECURSIVE BatchIsbnLoop(_, _, _)
BatchIsbnLoop(bindings, imap, res) ==
    IF bindings = <<>> THEN Returned(res)
    ELSE LET binding == bindings[1]
             key == dict_get(imap, binding.value, None)
             info == _parse_series_result(binding)
         IN  IF key # <<>>
             THEN IF info.exc # "none" THEN Partial(info.exc, res)
                  ELSE IF info.val # None
                  THEN BatchIsbnLoop(Tail(bindings), imap,
                                     dict_set(res, key, info.val[1]))
                  ELSE BatchIsbnLoop(Tail(bindings), imap, res)
             ELSE BatchIsbnLoop(Tail(bindings), imap, res)

\* 455-471 and 506-522: one try body
BatchIsbnBody(imap, reply, res) ==
    LET b == Bindings(reply)
    IN  IF b.exc # "none" THEN Partial(b.exc, res)
        ELSE BatchIsbnLoop(b.val, imap, res)

\* 472 and 523: the handler prints and the function goes on
BatchIsbnCatches(exc) == Catches({"Exception"}, exc)

BatchIsbnAfter(body) ==
    IF body.exc # "none" /\ BatchIsbnCatches(body.exc)
    THEN Returned(body.val) ELSE body

\* 406-422: no request for an empty list or an empty lookup class
BatchIsbnPlan ==
    /\ mode = "query_wikidata_batch_by_isbn" /\ pc = "start"
    /\ LET plan == IsbnPlan[req.isbn_list]
       IN  IF plan.isbn13_values # <<>>
           THEN pc' = "isbn13" /\ UNCHANGED <<ret, raised>>
           ELSE IF plan.isbn10_values # <<>>
           THEN pc' = "isbn10" /\ UNCHANGED <<ret, raised>>
           ELSE Return(Returned(<<>>))
    /\ NoLookup
    /\ UNCHANGED <<mode, req, vi, queue, results, stats, db>>

BatchIsbnStep(prop, values, d, reply) ==
    LET plan == IsbnPlan[req.isbn_list]
        body == BatchIsbnBody(plan.isbn_to_key, reply, results)
        r == BatchIsbnAfter(body)
    IN  /\ Issue(Lookup("batch_isbn", [prop |-> prop, values |-> values],
                        BatchOutcome(reply, body, r, r.val # results)),
                 r.val, d)
        /\ queue' = reply.rows
        /\ IF r.exc # "none"
           THEN Return(r) /\ UNCHANGED results
           ELSE /\ results' = r.val
                /\ IF prop = "P212" /\ plan.isbn10_values # <<>>
                   THEN pc' = "isbn10" /\ UNCHANGED <<ret, raised>>
                   ELSE Return(r)

\* 425-473: the ISBN-13 query
BatchIsbn13 ==
    /\ mode = "query_wikidata_batch_by_isbn" /\ pc = "isbn13"
    /\ \E reply \in IsbnReplies("P212"), d \in 0..MaxCallTime :
        BatchIsbnStep("P212", IsbnPlan[req.isbn_list].isbn13_values, d, reply)
    /\ UNCHANGED <<mode, req, vi, stats, db>>

\* 476-526: the ISBN-10 query
BatchIsbn10 ==
    /\ mode = "query_wikidata_batch_by_isbn" /\ pc = "isbn10"
    /\ \E reply \in IsbnReplies("P957"), d \in 0..MaxCallTime :
        BatchIsbnStep("P957", IsbnPlan[req.isbn_list].isbn10_values, d, reply)
    /\ UNCHANGED <<mode, req, vi, stats, db>>

---------------------------------------------------------------------------
(* cli.py: fetch_series *)

Isbn13C == <<"9","7","8","0","1","5","6","0","2","8","3","5","1">>

FetchBook(isbn, title) == [isbn |-> isbn, title |-> title]

\* the rows of the SELECT DISTINCT ... ORDER BY b.title of lines 396-408
FetchRequests ==
    { [books_to_process |-> <<FetchBook(Isbn13A, ColorPurple),
                              FetchBook(Isbn13B, FourthWing),
                              FetchBook(Isbn13C, Honor)>>,
       batch_size |-> 2, delay |-> DefaultDelay],
      [books_to_process |-> <<FetchBook(Isbn13A, ColorPurple),
                              FetchBook(Isbn13B, FourthWing)>>,
       batch_size |-> 1, delay |-> 2],
      [books_to_process |-> <<FetchBook(Isbn13A, ColorPurple),
                              FetchBook(Isbn13B, FourthWing)>>,
       batch_size |-> DefaultBatchSize, delay |-> DefaultDelay],
      [books_to_process |-> <<FetchBook(Isbn13A, FourthWing),
                              FetchBook(Isbn13B, FourthWing)>>,
       batch_size |-> DefaultBatchSize, delay |-> DefaultDelay],
      [books_to_process |-> <<>>, batch_size |-> DefaultBatchSize,
       delay |-> DefaultDelay] }

Min(a, b) == IF a < b THEN a ELSE b

\* 423: books_to_process[i:i + batch_size], i counted from 1
batch(books_to_process, batch_size, i) ==
    SubSeq(books_to_process, i, Min(i + batch_size - 1, Len(books_to_process)))

\* 424
titles_of(b) == [k \in 1..Len(b) |-> b[k].title]

\* The lists of titles query_wikidata_batch_by_title is called with, and
\* what lines 543-556 compute for each of them
TitleLists ==
    {r.titles : r \in BatchTitleRequests}
    \cup UNION {{titles_of(batch(r.books_to_process, r.batch_size, i)) :
                    i \in 1..Len(r.books_to_process)} : r \in FetchRequests}

BatchPlan ==
    [titles \in TitleLists |->
        [values |-> values_parts(titles), title_map |-> title_map(titles)]]

\* 540-541, 584-615: one call of the batch function on its own
QueryBatchByTitle ==
    /\ mode = "query_wikidata_batch_by_title" /\ pc = "start"
    /\ IF req.titles = <<>>
       THEN Return(Returned(<<>>)) /\ NoLookup /\ UNCHANGED <<queue, results>>
       ELSE LET tmap == BatchPlan[req.titles].title_map
                values == BatchPlan[req.titles].values
            IN  \E reply \in BatchReplies(TitleValues), d \in 0..MaxCallTime :
                  LET body == BatchTitleBody(tmap, reply)
                      r == BatchTitleReturn(body)
                  IN  /\ Issue(Lookup("batch_title", values,
                                      BatchOutcome(reply, body, r, r.val # <<>>)),
                               r.val, d)
                      /\ queue' = reply.rows
                      /\ results' = r.val
                      /\ Return(r)
    /\ UNCHANGED <<mode, req, vi, stats, db>>

\* 425: {title: isbn for isbn, title in batch}, for the first n books
RECURSIVE isbn_map(_, _)
isbn_map(b, n) ==
    IF n = 0 THEN <<>>
    ELSE LET earlier == isbn_map(b, n - 1)
         IN  dict_set(earlier, b[n].title, b[n].isbn)

\* 438-447: the UPDATEs of one batch, in the order of results.items()
RECURSIVE Updates(_, _)
Updates(res, imap) ==
    IF res = <<>> THEN <<>>
    ELSE LET isbn == dict_get(imap, res[1].key, None)
         IN  (IF isbn # <<>> THEN <<Item(isbn, res[1].val)>> ELSE <<>>)
             \o Updates(Tail(res), imap)

\* Faulty variant: the handler around one batch catches request errors only.
FetchCatchesRequestErrorsOnly(exc) == Catches({"RequestException"}, exc)

\* 451: the handler around one batch
FetchCatches(exc) == Catches({"Exception"}, exc)

\* 422-456: one batch
FetchSeriesBatch ==
    /\ mode = "fetch_series" /\ pc = "batch"
    /\ vi <= Len(req.books_to_process)
    /\ LET b == batch(req.books_to_process, req.batch_size, vi)
           titles == titles_of(b)
           tmap == BatchPlan[titles].title_map
           values == BatchPlan[titles].values
           imap == isbn_map(b, Len(b))
           more == vi + req.batch_size <= Len(req.books_to_process)
       IN  \E reply \in BatchReplies(TitleValues), d \in 0..MaxCallTime :
        LET body == BatchTitleBody(tmap, reply)
            r == BatchTitleReturn(body)
        IN  /\ Issue(Lookup("batch_title", values,
                            BatchOutcome(reply, body, r, r.val # <<>>)),
                     r.val, IF more THEN d + req.delay ELSE d)
            /\ IF r.exc # "none" /\ ~FetchCatches(r.exc)
               THEN Return(r) /\ UNCHANGED <<vi, stats, db>>
               ELSE /\ vi' = vi + req.batch_size
                    /\ UNCHANGED <<pc, ret, raised>>
                    /\ IF r.exc # "none"
                       THEN UNCHANGED <<stats, db>>
                       ELSE /\ stats' = [stats EXCEPT
                                           !.total_processed = @ + Len(b),
                                           !.total_found = @ + Len(r.val)]
                            /\ db' = db \o Updates(r.val, imap)
    /\ UNCHANGED <<mode, req, queue, results>>

\* 413-416, 458-464: nothing (left) to process
FetchSeriesFinish ==
    /\ mode = "fetch_series" /\ pc = "batch"
    /\ vi > Len(req.books_to_process)
    /\ Return(Returned(None))
    /\ NoLookup
    /\ UNCHANGED <<mode, req, vi, queue, results, stats, db>>

---------------------------------------------------------------------------
(* The runs *)

Start(m, p, r) ==
    /\ mode = m /\ pc = p /\ req = r
    /\ vi = 1 /\ queue = <<>> /\ net = <<>>
    /\ got = None /\ ret = None /\ raised = "none"
    /\ results = <<>> /\ db = <<>>
    /\ stats = IF m = "enrich_books_with_series" THEN InitialStats(Len(books))
               ELSE IF m = "fetch_series"
               THEN [total_found |-> 0, total_processed |-> 0]
               ELSE IF m \in {"backfill", "fetch_history"}
               THEN [request_count |-> 0]
               ELSE <<>>
    /\ sinceLast = 0 /\ lastGap = None

Init ==
    \/ \E r \in TitleRequests : Start("query_wikidata_by_title", "exact", r)
    \/ \E r \in IsbnRequests : Start("query_wikidata_by_isbn", "start", r)
    \/ \E r \in SingleRows : Start("_parse_series_result", "start", r)
    \/ \E r \in SingleRows : Start("get_series_info_for_entity", "start", r)
    \/ \E r \in EnrichRequests : Start("enrich_books_with_series", "book", r)
    \/ \E r \in BatchTitleRequests : Start("query_wikidata_batch_by_title", "start", r)
    \/ \E r \in BatchIsbnRequests : Start("query_wikidata_batch_by_isbn", "start", r)
    \/ \E r \in FetchRequests : Start("fetch_series", "batch", r)

Next ==
    \/ ExactTitle
    \/ AltLabel
    \/ SearchStep
    \/ EntityStep
    \/ QueryByIsbn
    \/ ParseSeriesResult
    \/ GetSeriesInfoForEntity
    \/ EnrichSkip
    \/ EnrichSearch
    \/ EnrichEntity
    \/ EnrichFinish
    \/ QueryBatchByTitle
    \/ BatchIsbnPlan
    \/ BatchIsbn13
    \/ BatchIsbn10
    \/ FetchSeriesBatch
    \/ FetchSeriesFinish

Spec == Init /\ [][Next]_vars

---------------------------------------------------------------------------
(* The runs of normalize_title: one call on a title, then one call on the  *)
(* result of the first.                                                    *)

NormalizeTitle ==
    /\ mode = "normalize_title" /\ pc = "start"
    /\ Return(Returned(normalize_title(req.title)))
    /\ NoLookup
    /\ UNCHANGED <<mode, req, vi, queue, results, stats, db>>

NormalizeAgain ==
    /\ mode = "normalize_title" /\ pc = "done"
    /\ pc' = "again"
    /\ got' = normalize_title(ret)
    /\ UNCHANGED <<mode, req, vi, queue, net, ret, raised, results, stats, db,
                   sinceLast, lastGap>>

NormalizeInit == \E s \in TitleStrings : Start("normalize_title", "start", [title |-> s])

NormalizeNext ==
    \/ NormalizeTitle
    \/ NormalizeAgain

NormalizeSpec == NormalizeInit /\ [][NormalizeNext]_vars

---------------------------------------------------------------------------
(* The runs of get_title_variations: two calls on the same title.          *)

\* The words of the titles: American and British spellings of the table in
\* both casings, the two spellings of "Sorcerer's", and other words
VariantTitles ==
    StrUpTo({W(b, c) : b \in {"color", "colour", "honor", "stone"}, c \in {"cap", "lower"}}
                \cup {W("sorcerer's", "cap"), W("sorcerers", "cap"),
                      W("philosopher's", "lower"), W("the", "cap")},
            MaxTitleWords)

GetTitleVariations ==
    /\ mode = "get_title_variations" /\ pc = "start"
    /\ Return(Returned(get_title_variations(req.title)))
    /\ NoLookup
    /\ UNCHANGED <<mode, req, vi, queue, results, stats, db>>

GetTitleVariationsAgain ==
    /\ mode = "get_title_variations" /\ pc = "done"
    /\ pc' = "again"
    /\ got' = get_title_variations(req.title)
    /\ UNCHANGED <<mode, req, vi, queue, net, ret, raised, results, stats, db,
                   sinceLast, lastGap>>

VariantsInit ==
    \E t \in VariantTitles : Start("get_title_variations", "start", [title |-> t])

VariantsNext ==
    \/ GetTitleVariations
    \/ GetTitleVariationsAgain

VariantsSpec == VariantsInit /\ [][VariantsNext]_vars

---------------------------------------------------------------------------
(* wikidata.py: to_title_case on the characters of a title.  A title is a  *)
(* sequence of characters: a blank, the letters a and n in both cases,     *)
(* which spell the small words "a" and "an" and other words, and a digit.  *)

\* str.upper() and str.lower() of one character
CaseOf ==
    [c \in {" ", "1", "a", "n", "A", "N"} |->
        CASE c \in {"a", "A"} -> [upper |-> "A", lower |-> "a"]
          [] c \in {"n", "N"} -> [upper |-> "N", lower |-> "n"]
          [] OTHER -> [upper |-> c, lower |-> c]]

\* 50: small_words, each word as its characters
small_words_spelled ==
    { <<"a">>, <<"a", "n">>, <<"t", "h", "e">>, <<"a", "n", "d">>, <<"b", "u", "t">>,
      <<"o", "r">>, <<"f", "o", "r">>, <<"n", "o", "r">>, <<"o", "n">>, <<"a", "t">>,
      <<"t", "o">>, <<"b", "y">>, <<"o", "f">>, <<"i", "n">>, <<"w", "i", "t", "h">>,
      <<"f", "r", "o", "m">>, <<"i", "n", "t", "o">>, <<"a", "s">> }

\* 49: str.split(): the maximal runs of characters that are no blanks
RECURSIVE split(_)
split(s) ==
    IF s = <<>> THEN <<>>
    ELSE IF s[1] = " " THEN split(Tail(s))
    ELSE LET n == CHOOSE k \in 1..Len(s) :
                    /\ \A i \in 1..k : s[i] # " "
                    /\ (k < Len(s) => s[k + 1] = " ")
         IN  <<SubSeq(s, 1, n)>> \o split(SubSeq(s, n + 1, Len(s)))

\* 54: str.capitalize(): the first character in upper case, the others in
\* lower case
str_capitalize(word) ==
    [i \in 1..Len(word) |->
        IF i = 1 THEN CaseOf[word[i]].upper ELSE CaseOf[word[i]].lower]

\* 57: ' '.join(result)
RECURSIVE join(_)
join(result) ==
    IF result = <<>> THEN <<>>
    ELSE IF Len(result) = 1 THEN result[1]
    ELSE result[1] \o <<" ">> \o join(Tail(result))

\* Faulty variant: a small word stays in lower case at the first position
\* too.
to_title_case_text_no_first(title) ==
    LET words == split([i \in 1..Len(title) |-> CaseOf[title[i]].lower])
    IN  join([i \in 1..Len(words) |->
                IF words[i] \notin small_words_spelled
                THEN str_capitalize(words[i]) ELSE words[i]])

\* 47-57 on characters
to_title_case_text(title) ==
    LET words == split([i \in 1..Len(title) |-> CaseOf[title[i]].lower])
    IN  join([i \in 1..Len(words) |->
                IF i = 1 \/ words[i] \notin small_words_spelled
                THEN str_capitalize(words[i]) ELSE words[i]])

ToTitleCase ==
    /\ mode = "to_title_case" /\ pc = "start"
    /\ Return(Returned(to_title_case_text(req.title)))
    /\ NoLookup
    /\ UNCHANGED <<mode, req, vi, queue, results, stats, db>>

TitleCaseSpec ==
    /\ \E s \in StrUpTo(DOMAIN CaseOf, MaxCaseLen) :
            Start("to_title_case", "start", [title |-> s])
    /\ [][ToTitleCase]_vars


---------------------------------------------------------------------------
(* cli.py: the request loops of backfill and fetch-history *)

\* How a call of the NYTimes client ends for the loops: it returns, or it
\* raises RateLimitError, NYTimesAPIError or an exception that neither
\* handler of the loop catches.
ClientOutcomes == {"ok", "RateLimitError", "NYTimesAPIError", "Exception"}

\* 154-157, 181-183: the head of the loop over dates_to_fetch.  vi is the
\* position in dates_to_fetch; the dates are numbered in weeks from start.
BackfillDate ==
    /\ mode = "backfill" /\ pc = "date"
    /\ IF vi > req.dates \/ stats.request_count >= req.max_requests
       THEN Return(Returned(None)) /\ queue' = queue
       ELSE /\ pc' = "list"
            /\ queue' = [i \in 1..req.list_names |-> i]
            /\ UNCHANGED <<ret, raised>>
    /\ NoLookup
    /\ UNCHANGED <<mode, req, vi, results, stats, db>>

\* 159-179: one iteration of the loop over list_names; queue holds the
\* names still to come.  A break leaves this loop only: the loop over the
\* dates goes on with the next date.
BackfillList ==
    /\ mode = "backfill" /\ pc = "list"
    /\ UNCHANGED <<mode, req, results, got, lastGap, sinceLast>>
    /\ IF queue = <<>> \/ stats.request_count >= req.max_requests
       THEN /\ pc' = "date" /\ vi' = vi + 1 /\ queue' = <<>>
            /\ UNCHANGED <<net, stats, db, ret, raised>>
       ELSE \E o \in ClientOutcomes :
            LET ln == Head(queue)
                fetch_date == vi
                call == [ln |-> ln, fetch_date |-> fetch_date]
            IN  /\ net' = Append(net, Lookup("get_list", call, o))
                /\ CASE o = "ok" ->
                          /\ stats' = [stats EXCEPT !.request_count = @ + 1]
                          /\ db' = Append(db, call)
                          /\ queue' = Tail(queue)
                          /\ UNCHANGED <<pc, vi, ret, raised>>
                     [] o = "RateLimitError" ->
                          /\ pc' = "date" /\ vi' = vi + 1 /\ queue' = <<>>
                          /\ UNCHANGED <<stats, db, ret, raised>>
                     [] o = "NYTimesAPIError" ->
                          /\ queue' = Tail(queue)
                          /\ UNCHANGED <<pc, vi, stats, db, ret, raised>>
                     [] OTHER ->
                          /\ Return(Raise("SystemExit"))
                          /\ UNCHANGED <<vi, queue, stats, db>>

\* 238-279: one iteration of the loop over range(weeks), or its end.  vi is
\* the position of the iterator, which gives week_num its value at the head
\* of every iteration; queue holds the local week_num, so the assignment of
\* line 266 is kept until the next iteration overwrites it.
FetchHistoryWeek ==
    /\ mode = "fetch_history" /\ pc = "week"
    /\ UNCHANGED <<mode, req, results, got, lastGap, sinceLast>>
    /\ IF vi > req.weeks \/ stats.request_count >= req.max_requests
       THEN /\ Return(Returned(None))
            /\ UNCHANGED <<vi, queue, net, stats, db>>
       ELSE \E o \in ClientOutcomes :
            LET week_num == vi - 1
                fetch_date == 0 - week_num
            IN  /\ net' = Append(net, Lookup("get_overview_full", fetch_date, o))
                /\ CASE o = "ok" ->
                          /\ stats' = [stats EXCEPT !.request_count = @ + 1]
                          /\ db' = Append(db, fetch_date)
                          /\ queue' = <<week_num>>
                          /\ vi' = vi + 1
                          /\ UNCHANGED <<pc, ret, raised>>
                     [] o = "RateLimitError" ->
                          /\ queue' = <<week_num - 1>>
                          /\ vi' = vi + 1
                          /\ UNCHANGED <<pc, stats, db, ret, raised>>
                     [] o = "NYTimesAPIError" ->
                          /\ queue' = <<week_num>>
                          /\ vi' = vi + 1
                          /\ UNCHANGED <<pc, stats, db, ret, raised>>
                     [] OTHER ->
                          /\ Return(Raise("SystemExit"))
                          /\ UNCHANGED <<vi, queue, stats, db>>

\* backfill over up to MaxWeeks weekly dates and MaxLists lists, and
\* fetch-history over up to MaxWeeks weeks, with --max-requests up to
\* MaxRequests
CommandsInit ==
    \/ \E nd \in 0..MaxWeeks, nl \in 1..MaxLists, n \in 0..MaxRequests :
            Start("backfill", "date",
                  [dates |-> nd, list_names |-> nl, max_requests |-> n])
    \/ \E w \in 0..MaxWeeks, n \in 0..MaxRequests :
            Start("fetch_history", "week", [weeks |-> w, max_requests |-> n])

CommandsNext ==
    \/ BackfillDate
    \/ BackfillList
    \/ FetchHistoryWeek

CommandsSpec == CommandsInit /\ [][CommandsNext]_vars

---------------------------------------------------------------------------
(* Properties *)

\* an unresolved-identifier placeholder: one letter, then digits only
IsPlaceholder(s) == Len(s) >= 2 /\ s[1] \in Letters /\ isdigit(Tail(s))

\* the cleaned ISBN of the request is well-formed
WellFormedIsbn == Len(clean_isbn(req.isbn)) \in {10, 13}

(* C1: in query_wikidata_by_title, an exact-label lookup that returns a    *)
(* match is the last lookup of the run: the run has returned, its result   *)
(* is that match, and no alternate-label, ISBN or search lookup follows.   *)
C1_ShortCircuit ==
    mode = "query_wikidata_by_title" =>
        \A i \in 1..Len(net) :
            (net[i].kind = "exact" /\ net[i].outcome = "hit") =>
                /\ i = Len(net)
                /\ pc = "done"
                /\ raised = "none"
                /\ ret # None /\ ret = got

\* a request with two more variants, an author and an ISBN returned on the
\* exact-label match of its first variant
C1_Witness ==
    /\ mode = "query_wikidata_by_title" /\ pc = "done"
    /\ Len(variations) >= 2 /\ WellFormedIsbn
    /\ Len(net) = 1 /\ net[1].kind = "exact" /\ net[1].outcome = "hit"
    /\ ret # None

(* C2 as claimed: no alternate-label lookup is issued before the           *)
(* exact-label lookup of every variant of the request was issued and       *)
(* failed.                                                                 *)
C2_ExactOnEveryVariantFirst ==
    mode = "query_wikidata_by_title" =>
        \A i \in 1..Len(net) :
            net[i].kind = "alt" =>
                \A v \in 1..Len(variations) :
                    \E j \in 1..(i - 1) :
                        /\ net[j].kind = "exact"
                        /\ net[j].arg = variations[v]
                        /\ net[j].outcome = "miss"

(* C2, amended: the variants are tried one after another in the order of   *)
(* get_title_variations; on each variant the exact-label lookup comes      *)
(* first and the alternate-label lookup of the same variant right after    *)
(* it, only when the exact-label lookup gave no match; the exact-label     *)
(* lookup of the next variant follows only a failed alternate-label lookup.*)
C2_VariantByVariant ==
    mode = "query_wikidata_by_title" =>
        \A i \in 1..Len(net) :
            /\ net[i].kind = "exact" =>
                /\ i % 2 = 1
                /\ (i + 1) \div 2 <= Len(variations)
                /\ net[i].arg = variations[(i + 1) \div 2]
                /\ i > 1 => net[i - 1].kind = "alt" /\ net[i - 1].outcome = "miss"
            /\ net[i].kind = "alt" =>
                /\ i > 1
                /\ net[i - 1].kind = "exact"
                /\ net[i - 1].outcome = "miss"
                /\ net[i - 1].arg = net[i].arg

\* the second variant got its exact-label lookup after both lookups of the
\* first one failed
C2_Witness ==
    /\ mode = "query_wikidata_by_title"
    /\ Len(net) >= 4
    /\ net[2].kind = "alt" /\ net[3].kind = "exact" /\ net[4].kind = "alt"
    /\ net[3].arg # net[1].arg

C4_FailureIsNoMatch ==
    mode \in {"query_wikidata_by_title", "query_wikidata_by_isbn",
              "get_series_info_for_entity"} =>
        /\ raised = "none"
        /\ (pc = "done" /\ \A i \in 1..Len(net) : net[i].outcome # "hit") => ret = None

(* C5: every series link a resolution path returns has a series name that  *)
(* is not empty and not a placeholder (one letter followed by digits).     *)
C5_NoPlaceholderName ==
    (mode \in {"query_wikidata_by_title", "query_wikidata_by_isbn",
               "_parse_series_result", "get_series_info_for_entity"}
     /\ ret # None) =>
        /\ ret[1].series_name # <<>>
        /\ ~IsPlaceholder(ret[1].series_name)

(* C6: a candidate whose label is not empty and not a placeholder is       *)
(* accepted and yields a link with that label (stated for the candidates   *)
(* whose ordinal is absent or an integer literal, so that the ordinal      *)
(* plays no part).                                                         *)
C6_OtherLabelsAccepted ==
    (/\ mode \in {"_parse_series_result", "get_series_info_for_entity"}
     /\ pc = "done"
     /\ req.label # <<>> /\ ~IsPlaceholder(req.label)
     /\ (req.position = <<>> \/ py_int(req.position).exc = "none")) =>
        /\ raised = "none"
        /\ ret # None
        /\ ret[1].series_name = req.label

(* C7: a candidate with an acceptable label (not empty, not beginning with *)
(* Q, not a placeholder) and an ordinal that is present but no number is   *)
(* accepted without an error and yields a link with no position.           *)
C7_BadOrdinalDropped ==
    (/\ mode \in {"_parse_series_result", "get_series_info_for_entity"}
     /\ pc = "done"
     /\ req.label # <<>> /\ ~startswith(req.label, "Q") /\ ~IsPlaceholder(req.label)
     /\ req.position # <<>> /\ py_int_float(req.position).exc # "none") =>
        /\ raised = "none"
        /\ ret # None
        /\ IF mode = "_parse_series_result"
           THEN ret[1].series_position = None
           ELSE ret[1].ordinal = None

\* the outcomes of a lookup whose request failed (no reply in time, a non-2xx
\* status, a payload that cannot be read)
Failure == {"error", "raised"}

\* the first book of the k-th batch, and the number of batches
BatchStart(k) == 1 + (k - 1) * req.batch_size
NumBatches == (Len(req.books_to_process) + req.batch_size - 1) \div req.batch_size

\* the books of the run that are not skipped, and the searches of the log
NotExisting(b) == b \notin existing
IsSearch(e) == e.kind = "search"

\* the requests query_wikidata_batch_by_isbn has to make
IsbnLookups ==
    LET v13 == isbn_values(req.isbn_list, "P212")
        v10 == isbn_values(req.isbn_list, "P957")
    IN  (IF v13 # <<>> THEN <<[prop |-> "P212", values |-> v13]>> ELSE <<>>)
        \o (IF v10 # <<>> THEN <<[prop |-> "P957", values |-> v10]>> ELSE <<>>)

(* C8: a failed lookup contributes nothing and stops nothing.  In          *)
(* fetch-series the batches are looked up once each, in order, whatever    *)
(* the earlier batches ended with, and no row is written for a batch whose *)
(* lookup failed; in enrich_books_with_series every book that is not       *)
(* skipped is searched once, in order, and a row is written only for a     *)
(* book whose entity lookup matched; in query_wikidata_batch_by_isbn the   *)
(* ISBN-13 request and then the ISBN-10 request are made whenever their    *)
(* class has a value, and a failed ISBN-13 request leaves the mapping      *)
(* empty.  None of the three ends with an exception.                       *)
C8_FailedLookupStopsNothing ==
    /\ mode = "fetch_series" =>
        /\ Len(net) <= NumBatches
        /\ \A k \in 1..Len(net) :
            LET b == batch(req.books_to_process, req.batch_size, BatchStart(k))
            IN  /\ net[k].kind = "batch_title"
                /\ net[k].arg = values_parts(titles_of(b))
                /\ net[k].outcome \in Failure =>
                      \A i \in 1..Len(db), j \in 1..Len(b) : db[i].key # b[j].isbn
        /\ pc = "done" => (Len(net) = NumBatches /\ raised = "none")
    /\ mode = "enrich_books_with_series" =>
        LET todo == SelectSeq(books, NotExisting)
            searches == SelectSeq(net, IsSearch)
        IN  /\ Len(searches) <= Len(todo)
            /\ \A k \in 1..Len(searches) : searches[k].arg = todo[k]
            /\ pc = "done" => (Len(searches) = Len(todo) /\ raised = "none")
            /\ \A i \in 1..Len(db) :
                \E j \in 1..Len(net) :
                    /\ net[j].kind = "entity" /\ net[j].arg.book = db[i]
                    /\ net[j].outcome = "hit"
    /\ mode = "query_wikidata_batch_by_isbn" =>
        /\ Len(net) <= Len(IsbnLookups)
        /\ \A k \in 1..Len(net) :
            net[k].kind = "batch_isbn" /\ net[k].arg = IsbnLookups[k]
        /\ pc = "done" => (Len(net) = Len(IsbnLookups) /\ raised = "none")
        /\ (Len(net) = 1 /\ net[1].outcome \in Failure) => results = <<>>

\* fetch-series finished: its first batch lookup failed, its second one
\* matched and was written
C8_Witness ==
    /\ mode = "fetch_series" /\ pc = "done"
    /\ Len(net) = 2
    /\ net[1].outcome \in Failure /\ net[2].outcome = "hit"
    /\ db # <<>>

\* a row that is complete and readable: a value, a name that is no
\* placeholder, and no ordinal or a number
WellFormedRow(row) ==
    /\ row.value # <<>>
    /\ row.label # <<>> /\ ~IsPlaceholder(row.label)
    /\ (row.position = <<>> \/ py_int_float(row.position).exc = "none")

\* the request key a row belongs to (None if to none)
KeyOfRow(row) ==
    IF mode = "query_wikidata_batch_by_title"
    THEN dict_get(title_map(req.titles), lower(row.value), None)
    ELSE dict_get(isbn_to_key(req.isbn_list, Len(req.isbn_list)), row.value, None)

(* C9: the batch functions never raise, and after each reply the mapping   *)
(* has a link for the key of every well-formed row of that reply.          *)
C9_BatchKeepsGoodRows ==
    mode \in {"query_wikidata_batch_by_title", "query_wikidata_batch_by_isbn"} =>
        /\ raised = "none"
        /\ \A i \in 1..Len(queue) :
            (WellFormedRow(queue[i]) /\ KeyOfRow(queue[i]) # None) =>
                KeyOfRow(queue[i]) \in Keys(results)

(* C10: in a run with a configured delay (fetch-series: --delay,           *)
(* enrich_books_with_series: REQUEST_DELAY) the starts of two consecutive  *)
(* lookups are at least that delay apart.                                  *)
C10_ThrottleFloor ==
    (mode \in {"fetch_series", "enrich_books_with_series"} /\ lastGap # None) =>
        lastGap[1] >= Delay

\* no element of seq occurs twice
NoDup(seq) == \A i, j \in 1..Len(seq) : seq[i] = seq[j] => i = j

\* the keys the reverse map of the running batch call holds for a value
KeysHeldFor(value) ==
    LET d == IF mode = "query_wikidata_batch_by_title"
             THEN BatchPlan[req.titles].title_map
             ELSE IsbnPlan[req.isbn_list].isbn_to_key
        k == IF mode = "query_wikidata_batch_by_title" THEN lower(value) ELSE value
    IN  {d[i].val : i \in {j \in 1..Len(d) : d[j].key = k}}

(* C11: a batch lookup names each value once, and the reverse map holds,   *)
(* for every value, the key of each request that produced it (each title   *)
(* for its variants, each key for its well-formed cleaned ISBN).           *)
C11_BatchDedup ==
    /\ (mode = "query_wikidata_batch_by_title" /\ net # <<>>) =>
        /\ NoDup(net[1].arg)
        /\ \A i \in 1..Len(req.titles) :
            LET vs == get_title_variations(to_title_case(req.titles[i]))
            IN  \A k \in 1..Len(vs) : req.titles[i] \in KeysHeldFor(vs[k])
    /\ (mode = "query_wikidata_batch_by_isbn" /\ net # <<>>) =>
        /\ \A n \in 1..Len(net) : NoDup(net[n].arg.values)
        /\ \A i \in 1..Len(req.isbn_list) :
            LET clean == clean_isbn(req.isbn_list[i].isbn)
            IN  isbn_prop(clean) # "none" =>
                    req.isbn_list[i].key \in KeysHeldFor(clean)

\* a row the filter accepts
Accepted(row) ==
    /\ row.value # <<>>
    /\ _parse_series_result(row).exc = "none"
    /\ _parse_series_result(row).val # None

\* the requests of the running batch call that originated a lookup value
OriginatedBy(value) ==
    IF mode = "query_wikidata_batch_by_title"
    THEN {req.titles[i] : i \in
            {j \in 1..Len(req.titles) :
                LET vs == get_title_variations(to_title_case(req.titles[j]))
                IN  \E k \in 1..Len(vs) : lower(vs[k]) = lower(value)}}
    ELSE {req.isbn_list[i].key : i \in
            {j \in 1..Len(req.isbn_list) :
                /\ clean_isbn(req.isbn_list[j].isbn) = value
                /\ isbn_prop(value) # "none"}}

\* the books of the batch fetch_series has just processed
LastBatch ==
    batch(req.books_to_process, req.batch_size, vi - req.batch_size)

(* C12: when every reply of a batch call was read to its end, each request *)
(* that originated the value of an accepted row has a link; and after a    *)
(* fetch-series batch every book of the batch whose title got a link has   *)
(* its row updated, also when two books of the batch share the title.      *)
C12_ResultFanOut ==
    /\ (/\ mode \in {"query_wikidata_batch_by_title", "query_wikidata_batch_by_isbn"}
        /\ pc = "done" /\ raised = "none"
        /\ \A n \in 1..Len(net) : net[n].outcome \in {"hit", "miss"}) =>
            \A i \in 1..Len(queue) :
                Accepted(queue[i]) =>
                    \A key \in OriginatedBy(queue[i].value) : key \in Keys(results)
    /\ (/\ mode = "fetch_series" /\ net # <<>> /\ raised = "none"
        /\ net[Len(net)].outcome = "hit") =>
            \A k \in 1..Len(LastBatch) :
                LastBatch[k].title \in Keys(got) =>
                    \E u \in 1..Len(db) : db[u].key = LastBatch[k].isbn

\* the request key the loops of lines 466, 517 and 602 find for a row
\* (None: the row is skipped)
RowKey(row) ==
    IF mode = "query_wikidata_batch_by_title"
    THEN Some(dict_get(BatchPlan[req.titles].title_map, lower(row.value), row.value))
    ELSE LET key == dict_get(IsbnPlan[req.isbn_list].isbn_to_key, row.value, None)
         IN  IF row.value \in Keys(IsbnPlan[req.isbn_list].isbn_to_key)
             THEN Some(key) ELSE None

\* row i of the latest reply is the first accepted row of its key
FirstOfKey(i) ==
    /\ Accepted(queue[i]) /\ RowKey(queue[i]) # None
    /\ \A j \in 1..(i - 1) :
        ~(Accepted(queue[j]) /\ RowKey(queue[j]) = RowKey(queue[i]))

(* C13: when a reply was read to its end and no earlier reply gave a link, *)
(* the link stored for a key is the one of the first accepted row of that  *)
(* key, in the title batch and in both ISBN batches.                       *)
C13_FirstMatchWins ==
    (/\ mode \in {"query_wikidata_batch_by_title", "query_wikidata_batch_by_isbn"}
     /\ net # <<>> /\ raised = "none"
     /\ net[Len(net)].outcome \in {"hit", "miss"}
     /\ \A n \in 1..(Len(net) - 1) : net[n].outcome \in {"miss", "error"}) =>
        \A i \in 1..Len(queue) :
            FirstOfKey(i) =>
                /\ RowKey(queue[i])[1] \in Keys(results)
                /\ dict_get(results, RowKey(queue[i])[1], None)
                     = _parse_series_result(queue[i]).val[1]

\* the lookup classes under which the reverse map of the ISBN batch holds key
ClassesHolding(key) ==
    LET d == IsbnPlan[req.isbn_list].isbn_to_key
    IN  {prop \in {"P212", "P957"} :
            \E n \in 1..Len(d) : d[n].val = key /\ isbn_prop(d[n].key) = prop}

(* C14: once the batch call has planned its lookups, the key of every      *)
(* entry with a well-formed ISBN is held by the reverse map under exactly  *)
(* one lookup class, the entry of an ill-formed ISBN is not kept in the    *)
(* reverse map, and every title of a title batch is held by its map.       *)
C14_PlannerCompleteness ==
    /\ (mode = "query_wikidata_batch_by_isbn" /\ pc # "start") =>
        \A i \in 1..Len(req.isbn_list) :
            LET clean == clean_isbn(req.isbn_list[i].isbn)
            IN  IF isbn_prop(clean) # "none"
                THEN Cardinality(ClassesHolding(req.isbn_list[i].key)) = 1
                ELSE clean \notin Keys(IsbnPlan[req.isbn_list].isbn_to_key)
    /\ (mode = "query_wikidata_batch_by_title" /\ pc # "start") =>
        \A i \in 1..Len(req.titles) :
            \E n \in 1..Len(BatchPlan[req.titles].title_map) :
                BatchPlan[req.titles].title_map[n].val = req.titles[i]

(* C15: a request with neither a usable title nor a well-formed ISBN       *)
(* causes no lookup on the single paths, and contributes no value to a     *)
(* batch lookup: no empty title and no ill-formed ISBN is among the values *)
(* of a batch lookup, and a batch of such requests alone issues none.      *)
C15_InvalidNeverSent ==
    /\ (/\ mode \in {"query_wikidata_by_title", "query_wikidata_by_isbn"}
        /\ req.title = NoTitle
        /\ isbn_prop(clean_isbn(req.isbn)) = "none") => net = <<>>
    /\ mode = "query_wikidata_batch_by_title" =>
        /\ \A n \in 1..Len(net) : \A k \in 1..Len(net[n].arg) : net[n].arg[k] # <<>>
        /\ (\A i \in 1..Len(req.titles) : req.titles[i] = NoTitle) => net = <<>>
    /\ mode = "query_wikidata_batch_by_isbn" =>
        /\ \A n \in 1..Len(net) : \A k \in 1..Len(net[n].arg.values) :
            isbn_prop(net[n].arg.values[k]) # "none"
        /\ (\A i \in 1..Len(req.isbn_list) :
                isbn_prop(clean_isbn(req.isbn_list[i].isbn)) = "none") => net = <<>>

\* the ISBNs of isbn_list whose cleaned form has n characters, cleaned, in
\* the order of the list
CleanedOfLength(isbn_list, n, Clean(_)) ==
    SelectSeq([i \in 1..Len(isbn_list) |-> Clean(isbn_list[i].isbn)],
              LAMBDA c : Len(c) = n)

\* the lookups a finished ISBN call must have issued when Clean is the
\* cleaning: on the single path one lookup by the class of the cleaned
\* length or none, on the batch path one lookup per non-empty class
IsbnClassification(Clean(_)) ==
    /\ (mode = "query_wikidata_by_isbn" /\ pc = "done") =>
        LET c == Clean(req.isbn)
        IN  [n \in 1..Len(net) |-> net[n].arg] =
                IF Len(c) = 13 THEN <<[prop |-> "P212", isbn |-> c]>>
                ELSE IF Len(c) = 10 THEN <<[prop |-> "P957", isbn |-> c]>>
                ELSE <<>>
    /\ (mode = "query_wikidata_batch_by_isbn" /\ pc = "done") =>
        LET v13 == CleanedOfLength(req.isbn_list, 13, Clean)
            v10 == CleanedOfLength(req.isbn_list, 10, Clean)
        IN  [n \in 1..Len(net) |-> net[n].arg] =
                (IF v13 # <<>> THEN <<[prop |-> "P212", values |-> v13]>> ELSE <<>>)
                \o (IF v10 # <<>> THEN <<[prop |-> "P957", values |-> v10]>> ELSE <<>>)

HyphensRemoved(isbn) == RemoveHyphens(isbn)
HyphensAndBlanksRemoved(isbn) == strip(RemoveHyphens(isbn))

(* C16 as claimed: an ISBN is cleaned by removing its hyphens only; the    *)
(* cleaned length 13 selects the ISBN-13 lookup, 10 the ISBN-10 lookup,    *)
(* any other length neither, on the single and on the batch path.          *)
C16_HyphensOnly == IsbnClassification(HyphensRemoved)

(* C16, amended: an ISBN is cleaned by removing its hyphens and then the   *)
(* blanks around it; the cleaned length 13 selects the ISBN-13 lookup, 10  *)
(* the ISBN-10 lookup, any other length neither, and the single and the    *)
(* batch path classify every ISBN the same way.                            *)
C16_Classification == IsbnClassification(HyphensAndBlanksRemoved)

\* a finished batch call that sent the ISBN written with blanks around it
\* in the ISBN-13 lookup, the ISBN-10 in the other and the short one in none
C16_Witness ==
    /\ mode = "query_wikidata_batch_by_isbn" /\ pc = "done"
    /\ \E i \in 1..Len(req.isbn_list) : req.isbn_list[i].isbn = Isbn13Spaced
    /\ \E i \in 1..Len(req.isbn_list) : req.isbn_list[i].isbn = IsbnShort
    /\ Len(net) = 2
    /\ net[1].arg = [prop |-> "P212", values |-> <<Isbn13B>>]
    /\ net[2].arg.prop = "P957"

(* C17: normalize_title is idempotent: normalizing the result of a call    *)
(* gives that result again.                                                *)
C17_NormalizerIdempotent ==
    (mode = "normalize_title" /\ pc = "again") => got = ret

\* s holds two blanks side by side
AdjacentBlanks(s) == \E i \in 1..(Len(s) - 1) : s[i] = " " /\ s[i + 1] = " "

(* C18: the result of normalize_title holds no colon, begins and ends with *)
(* no blank and holds no two blanks side by side, and it is the empty      *)
(* string for an empty or all-blank title.                                 *)
C18_NormalizerRules ==
    (mode = "normalize_title" /\ pc # "start") =>
        /\ \A i \in 1..Len(ret) : ret[i] # ":"
        /\ ret # <<>> => (ret[1] # " " /\ ret[Len(ret)] # " ")
        /\ ~AdjacentBlanks(ret)
        /\ AllBlank(req.title, 1, Len(req.title)) => ret = <<>>

(* C19: the list get_title_variations returns for a title begins with     *)
(* that title, holds no two elements that are equal when case is ignored,  *)
(* and a second call on the same title returns the same list.              *)
C19_VariantListShape ==
    /\ (mode = "get_title_variations" /\ pc # "start") =>
        /\ Len(ret) >= 1 /\ ret[1] = req.title
        /\ \A i, j \in 1..Len(ret) : lower(ret[i]) = lower(ret[j]) => i = j
    /\ (mode = "get_title_variations" /\ pc = "again") => got = ret

\* two calls on a title that holds both spellings of one entry and a term
\* of another: the original and three variants
C19_Witness ==
    /\ mode = "get_title_variations" /\ pc = "again"
    /\ Contains(req.title, <<W("color", "cap")>>)
    /\ Contains(req.title, <<W("colour", "cap")>>)
    /\ Contains(req.title, <<W("honor", "cap")>>)
    /\ Len(ret) = 4 /\ got = ret

\* the substitutions of one table entry, one of whose terms occurs in the
\* title, in the original title
MatchedSubstitutions(title) ==
    UNION {{re_sub(TITLE_VARIATIONS[k][d], TITLE_VARIATIONS[k][3 - d], title) :
                d \in {x \in {1, 2} : Contains(title, TITLE_VARIATIONS[k][x])}} :
            k \in 1..Len(TITLE_VARIATIONS)}

(* C20: every element after the first of the list get_title_variations     *)
(* returns is the original title with the term of one table entry that     *)
(* occurs in it replaced by its counterpart, and the list has at most      *)
(* 1 + 2 x (number of table entries) elements.                             *)
C20_NoVariantOfVariant ==
    (mode = "get_title_variations" /\ pc # "start") =>
        /\ \A i \in 2..Len(ret) : ret[i] \in MatchedSubstitutions(req.title)
        /\ Len(ret) <= 1 + 2 * Len(TITLE_VARIATIONS)

\* a call on a title that holds terms of two entries returned the two
\* single substitutions
C20_Witness ==
    /\ mode = "get_title_variations" /\ pc = "done"
    /\ req.title = <<W("color", "cap"), W("honor", "cap")>>
    /\ ret = <<req.title,
               <<W("colour", "cap"), W("honor", "cap")>>,
               <<W("color", "cap"), W("honour", "cap")>>>>

\* the positions of s where a word (a run of characters other than blanks)
\* begins
WordBegins(s) == {i \in 1..Len(s) : s[i] # " " /\ (i = 1 \/ s[i - 1] = " ")}

\* the k-th word of s
WordOf(s, k) ==
    LET b == CHOOSE i \in WordBegins(s) :
                Cardinality({j \in WordBegins(s) : j <= i}) = k
        e == CHOOSE i \in b..Len(s) :
                /\ \A j \in b..i : s[j] # " "
                /\ (i < Len(s) => s[i + 1] = " ")
    IN  SubSeq(s, b, e)

LowerCased(s) == [i \in 1..Len(s) |-> CaseOf[s[i]].lower]

(* C21: the result of to_title_case holds the words of the title in their  *)
(* order, separated by single blanks and with no blank at its ends; the    *)
(* first word is capitalized, a later word is in lower case when it is a   *)
(* small word and capitalized otherwise.                                   *)
C21_ComparableCase ==
    (mode = "to_title_case" /\ pc = "done") =>
        /\ ret # <<>> => (ret[1] # " " /\ ret[Len(ret)] # " ")
        /\ ~AdjacentBlanks(ret)
        /\ Cardinality(WordBegins(ret)) = Cardinality(WordBegins(req.title))
        /\ \A k \in 1..Cardinality(WordBegins(req.title)) :
            LET word == LowerCased(WordOf(req.title, k))
                cased == WordOf(ret, k)
            IN  /\ LowerCased(cased) = word
                /\ IF k > 1 /\ word \in small_words_spelled
                   THEN cased = word
                   ELSE /\ cased[1] = CaseOf[word[1]].upper
                        /\ \A i \in 2..Len(cased) : cased[i] = word[i]

\* a call on a title of two small words in upper case with two blanks
\* between them
C21_Witness ==
    /\ mode = "to_title_case" /\ pc = "done"
    /\ req.title = <<"A", " ", " ", "A", "N">>
    /\ ret = <<"A", " ", "a", "n">>

\* the lookups of the fuzzy strategy in the log: of the run for
\* query_wikidata_by_title, of book b for enrich_books_with_series
FuzzyLookups(b) ==
    SelectSeq(net, LAMBDA e :
        IF mode = "query_wikidata_by_title" THEN e.kind \in {"search", "entity"}
        ELSE (e.kind = "search" /\ e.arg = b) \/ (e.kind = "entity" /\ e.arg.book = b))

\* the entity an entity lookup was made for
EntityOf(e) == IF mode = "query_wikidata_by_title" THEN e.arg ELSE e.arg.id

(* C22: the fuzzy strategy begins with one search, which asks for at most  *)
(* 5 entities; the series lookups that follow are at most 5, each for      *)
(* another entity and, while lookups remain, for the next entity of the    *)
(* list the search returned; no lookup follows one that gave a match; the  *)
(* strategy never raises, and it ends with None when the search failed or  *)
(* no entity gave a match and with the link of the matching entity         *)
(* otherwise.                                                              *)
C22_FuzzyFallbackOrder ==
    /\ mode = "query_wikidata_by_title" =>
        LET f == FuzzyLookups(None)
        IN  /\ \A i \in 1..Len(f) :
                /\ (f[i].kind = "search") = (i = 1)
                /\ f[i].kind = "search" => f[i].arg.limit <= 5
                /\ f[i].outcome # "raised"
                /\ i < Len(f) => (IF i = 1 THEN f[i].outcome = "hit"
                                  ELSE f[i].outcome # "hit")
                /\ \A j \in 2..(i - 1) : EntityOf(f[j]) # EntityOf(f[i])
            /\ Len(f) <= 1 + 5
            /\ pc = "entity" => (queue # <<>> /\ \A i \in 2..Len(f) :
                                    \A k \in 1..Len(queue) : queue[k] # EntityOf(f[i]))
            /\ (pc = "done" /\ f # <<>>) =>
                /\ raised = "none"
                /\ IF f[Len(f)].kind = "entity" /\ f[Len(f)].outcome = "hit"
                   THEN ret # None /\ ret = got
                   ELSE ret = None
    /\ mode = "enrich_books_with_series" =>
        \A n \in 1..Len(books) :
            LET f == FuzzyLookups(books[n])
            IN  /\ \A i \in 1..Len(f) :
                    /\ (f[i].kind = "search") = (i = 1)
                    /\ f[i].outcome # "raised"
                    /\ i < Len(f) => (IF i = 1 THEN f[i].outcome = "hit"
                                      ELSE f[i].outcome # "hit")
                    /\ \A j \in 2..(i - 1) : EntityOf(f[j]) # EntityOf(f[i])
                /\ Len(f) <= 1 + 5

\* the exclusion set the caller of enrich_books_with_series supplies: the
\* books of book_series when skip_existing is set
Excluded == IF req.skip_existing THEN req.stored ELSE {}

\* the book a lookup of enrich_books_with_series was made for
BookOf(e) == IF e.kind = "search" THEN e.arg ELSE e.arg.book

\* no lookup and no write for an excluded book, and every excluded book
\* the loop has passed is counted as skipped
ExcludedAreSkipped ==
    mode = "enrich_books_with_series" =>
        /\ \A n \in 1..Len(net) : BookOf(net[n]) \notin Excluded
        /\ \A n \in 1..Len(db) : db[n] \notin Excluded
        /\ stats.skipped =
              Cardinality({n \in 1..Len(books) : n < vi /\ books[n] \in Excluded})

(* C23: enrich_books_with_series issues no lookup and writes no link for a *)
(* book of the exclusion set, counts each such book it passes as skipped,  *)
(* and no step of the run changes the exclusion set.                       *)
C23_ExclusionSet ==
    /\ []ExcludedAreSkipped
    /\ [][mode = "enrich_books_with_series" => Excluded' = Excluded]_vars

\* a finished run that skipped the one excluded book of three, looked the
\* other two up and wrote a link
C23_Witness ==
    /\ mode = "enrich_books_with_series" /\ pc = "done"
    /\ Len(books) = 3 /\ Excluded = {BookB}
    /\ stats.skipped = 1
    /\ \E n \in 1..Len(net) : BookOf(net[n]) = BookA
    /\ \E n \in 1..Len(net) : BookOf(net[n]) = BookC
    /\ db # <<>>

\* the positions of the links a finished call returned, and of the links a
\* batch call has stored for its keys
ReturnedPositions ==
    (IF /\ mode \in {"query_wikidata_by_title", "query_wikidata_by_isbn",
                     "_parse_series_result"}
        /\ pc = "done" /\ raised = "none" /\ ret # None
     THEN {ret[1].series_position} ELSE {})
    \cup
    (IF /\ mode = "get_series_info_for_entity"
        /\ pc = "done" /\ raised = "none" /\ ret # None
     THEN {ret[1].ordinal} ELSE {})
    \cup
    (IF mode \in {"query_wikidata_batch_by_title", "query_wikidata_batch_by_isbn"}
     THEN {results[n].val.series_position : n \in 1..Len(results)} ELSE {})

(* C24: the position of every link a lookup returns or a batch stores is   *)
(* absent or an integer that is not negative.                              *)
C24_PositionRange ==
    \A p \in ReturnedPositions : p = None \/ p[1] >= 0

\* the lookups of the log with the given outcome
LookupsWith(outcome) == {n \in 1..Len(net) : net[n].outcome = outcome}

\* every book the loop has passed is counted once: as skipped, as processed
\* or as an error; an error is a lookup that raised or a link that could not
\* be saved, and a link is counted as found only with its book processed
BooksCountedOnce ==
    /\ stats.total = Len(books)
    /\ stats.skipped + stats.processed + stats.errors = vi - 1
    /\ stats.found_series <= stats.processed
    /\ stats.found_series = Len(db)
    /\ stats.errors = Cardinality(LookupsWith("raised"))
                      + (Cardinality({n \in LookupsWith("hit") : net[n].kind = "entity"})
                         - stats.found_series)

(* C28: in every state of enrich_books_with_series each book the loop has  *)
(* passed is counted in exactly one of skipped, processed and errors, and  *)
(* found_series is at most processed; the call returns the statistics      *)
(* without raising, after the last book, so total = skipped + processed +  *)
(* errors, whatever lookups and saves raised on the way.                   *)
C28_EnrichmentAccounting ==
    mode = "enrich_books_with_series" =>
        /\ BooksCountedOnce
        /\ pc = "done" =>
              /\ raised = "none" /\ ret = Some(stats)
              /\ vi = Len(books) + 1
              /\ stats.total = stats.skipped + stats.processed + stats.errors

\* a finished run over three books: the lookup of the first raised, the
\* second was skipped, the third was looked up afterwards and processed
C28_Witness ==
    /\ mode = "enrich_books_with_series" /\ pc = "done"
    /\ stats.total = 3 /\ stats.errors = 1 /\ stats.skipped = 1 /\ stats.processed = 1
    /\ \E n \in LookupsWith("raised") :
          /\ BookOf(net[n]) = BookA
          /\ \E k \in (n + 1)..Len(net) : BookOf(net[k]) = BookC

\* the calls of the client a run has made that returned or failed with an
\* error of the API
ApiRequests ==
    {n \in 1..Len(net) : net[n].outcome \in {"ok", "NYTimesAPIError", "RateLimitError"}}

(* C25: a run of backfill or fetch-history never makes more calls of the   *)
(* client, successful or failed with an API error, than --max-requests.    *)
C25_RequestCap ==
    mode \in {"backfill", "fetch_history"} =>
        Cardinality(ApiRequests) <= req.max_requests

(* C26: in a run of backfill a call that raised RateLimitError is the last *)
(* call of the run: none follows it, for the same date or a later one.     *)
C26_BackfillStopsOnRateLimit ==
    mode = "backfill" =>
        \A n \in 1..Len(net) : net[n].outcome = "RateLimitError" => n = Len(net)

(* C27: in a run of fetch-history the call that follows a call that raised *)
(* RateLimitError is for the same week, and a run that ends below its      *)
(* request cap without leaving through an exception has had an answer      *)
(* other than a rate limit for every week of the range.                    *)
C27_RateLimitedWeekRetried ==
    mode = "fetch_history" =>
        /\ \A n \in 1..(Len(net) - 1) :
              net[n].outcome = "RateLimitError" => net[n + 1].arg = net[n].arg
        /\ (pc = "done" /\ raised = "none"
              /\ stats.request_count < req.max_requests) =>
              \A w \in 0..(req.weeks - 1) :
                  \E n \in 1..Len(net) :
                      net[n].arg = 0 - w /\ net[n].outcome # "RateLimitError"

===========================================================================
